---------------------------- MODULE Spec2Model ----------------------------
(***************************************************************************)
(* The BuildStream sandbox: the Sandbox programming interface with its     *)
(* command batching (buildstream/sandbox/sandbox.py) and the bubblewrap    *)
(* backend (buildstream/sandbox/_sandboxbwrap.py).                         *)
(*                                                                         *)
(* One sandbox object, used by one caller.  The class of the object is     *)
(* fixed at construction:                                                  *)
(*   "Sandbox"       the base class, whose _run() raises ImplError;        *)
(*   "SandboxBwrap"  the bubblewrap backend, which defines run() (and so   *)
(*                   overrides Sandbox.run) and defines no _run();         *)
(*   "SandboxImpl"   any subclass that overrides _run() as the abstract    *)
(*                   method documents (it returns the exit code).          *)
(***************************************************************************)
EXTENDS Integers, Sequences, FiniteSets, TLC

VARIABLES
    kind,           \* class of the sandbox object
    __cwd,          \* Sandbox.__cwd
    __env,          \* Sandbox.__env
    __directories,  \* Sandbox.__directories, the marked directories
    __batch,        \* Sandbox.__batch, the pending command batch
    children,       \* _SandboxBatchGroup.children of every group of the batch
    scopes,         \* parent_group of every nested batch() scope that is open
    exec,           \* batch.execute() in progress: the batch and its call stack
    executed,       \* items executed by the last batch.execute(), in order
    handoff,        \* the command the last step handed to _run() / to the launcher
    result,         \* outcome of the last call made by the caller
    call,           \* the last call made by the caller
    root,           \* the root directory of the sandbox, on the host
    launcher,       \* what the launcher and the host do to the root directory
    trace           \* what the last step did on the host, call by call

vars == <<kind, __cwd, __env, __directories, __batch, children, scopes,
          exec, executed, handoff, result, call, root, launcher, trace>>

-----------------------------------------------------------------------------
(* Python values *)

None == "None"
NoEnv == [None |-> "None"]
NoBatch == [None |-> "None"]
NoExec == [None |-> "None"]
NoHandoff == [None |-> "None"]

\* the caller is between two calls
Idle == [kind |-> "idle", op |-> "idle"]

Return(value) == [kind |-> "return", value |-> value]
ReturnNone == [kind |-> "return", none |-> TRUE]
Raise(error) == [kind |-> "raise", error |-> error]

\* x or y, for strings
Or(x, y) == IF x # None /\ x # "" THEN x ELSE y

-----------------------------------------------------------------------------
(* SandboxFlags *)

NONE == 0
ROOT_READ_ONLY == 1
NETWORK_ENABLED == 2
INTERACTIVE == 4
INHERIT_UID == 8

\* flags & flag
HasFlag(flags, flag) == (flags \div flag) % 2 = 1

AllFlags == 0 .. 15

-----------------------------------------------------------------------------
(* Bounds and the values the caller draws its arguments from *)

MaxItems == 4       \* items (commands, calls, groups) added to one batch
MaxMarks == 2       \* marked directories

ExitCodes == {0, 1}
CallbackCommand == <<"true">>
Paths == {"/a", "/w"}
MarkPaths == {"/m1", "/m2"}
Environments == {[PATH |-> "/usr/bin"], [PATH |-> "/bin", PWD |-> "/stale"]}

-----------------------------------------------------------------------------
(* Sandbox: working directory and environment *)

\* Sandbox._get_work_directory
_get_work_directory(cwd) == Or(cwd, Or(__cwd, "/"))

\* dict(None) raises TypeError
TypeError == [type |-> "TypeError"]

\* Sandbox._get_environment: a copy of the environment with PWD set
_get_environment(cwd, env) ==
    LET wd == _get_work_directory(cwd)
        e == IF env = NoEnv THEN __env ELSE env
    IN  IF e = NoEnv
        THEN TypeError
        ELSE [k \in DOMAIN e \cup {"PWD"} |-> IF k = "PWD" THEN wd ELSE e[k]]

-----------------------------------------------------------------------------
(* The batch tree.  Group g is children[g]; the main group is group 1. *)

\* _SandboxBatchCommand; flags and req are what run() was called with
BatchCommand(id, command, cwd, env, label, flags, req) ==
    [type |-> "Command", id |-> id, command |-> command, cwd |-> cwd,
     env |-> env, label |-> label, flags |-> flags, req |-> req]

\* _SandboxBatchCall
BatchCall(id, callback) == [type |-> "Call", id |-> id, callback |-> callback]

\* _SandboxBatchGroup, as an item of its parent group
BatchGroup(group, label) == [type |-> "Group", group |-> group, label |-> label]

\* append that puts the item first
append_first(ch, group, item) == [ch EXCEPT ![group] = <<item>> \o @]

\* _SandboxBatchGroup.append
append(ch, group, item) == [ch EXCEPT ![group] = Append(@, item)]

\* every item of the tree, as the set of <<group, index>> places
Places(ch) == {p \in (1 .. Len(ch)) \X (1 .. MaxItems + 1) : p[2] <= Len(ch[p[1]])}

ItemCount(ch) == Cardinality(Places(ch))

\* the commands and calls of the tree
Leaves(ch) == {ch[p[1]][p[2]] : p \in {q \in Places(ch) : ch[q[1]][q[2]].type # "Group"}}

\* the number a new command or call gets: its place in the order of the calls
NextId(ch) == Cardinality(Leaves(ch)) + 1

-----------------------------------------------------------------------------
(* The bubblewrap command line *)

\* SandboxBwrap.DEVICES
DEVICES == <<"/dev/full", "/dev/null", "/dev/urandom", "/dev/random", "/dev/zero">>

\* utils.get_host_tool('bwrap'), when the tool is installed
BwrapPath == "/usr/bin/bwrap"

\* MountMap.get_mount_source: the host path a mount point is mounted from
get_mount_source(mountpoint) ==
    CASE mountpoint = "/" -> "host:/root"
      [] mountpoint = "/m1" -> "host:/m1"
      [] mountpoint = "/m2" -> "host:/m2"
      [] OTHER -> "host:other"

\* the device binds without the last device
DeviceBinds_short ==
    [i \in 1 .. 3 * (Len(DEVICES) - 1) |->
        IF i % 3 = 1 THEN "--dev-bind" ELSE DEVICES[(i + 2) \div 3]]

\* for device in self.DEVICES: bwrap_command += ['--dev-bind', device, device]
DeviceBinds ==
    [i \in 1 .. 3 * Len(DEVICES) |->
        IF i % 3 = 1 THEN "--dev-bind" ELSE DEVICES[(i + 2) \div 3]]

\* one bind for each directory, however often it was marked
MarkBinds_unique(marks) ==
    LET kept == {i \in 1 .. Len(marks) :
                    \A j \in 1 .. i - 1 : marks[j].directory # marks[i].directory}
        nth(k) == CHOOSE i \in kept : Cardinality({j \in kept : j < i}) = k - 1
    IN  [i \in 1 .. 3 * Cardinality(kept) |->
            CASE i % 3 = 1 -> "--bind"
              [] i % 3 = 2 -> get_mount_source(marks[nth((i + 2) \div 3)].directory)
              [] OTHER -> marks[nth((i + 2) \div 3)].directory]

\* for mark in marked_directories: bwrap_command += ['--bind', source, mount_point]
MarkBinds(marks) ==
    [i \in 1 .. 3 * Len(marks) |->
        CASE i % 3 = 1 -> "--bind"
          [] i % 3 = 2 -> get_mount_source(marks[(i + 2) \div 3].directory)
          [] OTHER -> marks[(i + 2) \div 3].directory]

\* the argument vector with the root remounted read-only before the marked
\* directories are bound
bwrap_command_remount_first(command, flags, cwd, marks) ==
    <<BwrapPath>>
    \o <<"--unshare-pid">>
    \o <<"--bind", get_mount_source("/"), "/">>
    \o (IF ~HasFlag(flags, NETWORK_ENABLED) THEN <<"--unshare-net">> ELSE <<>>)
    \o (IF cwd # None THEN <<"--chdir", cwd>> ELSE <<>>)
    \o <<"--proc", "/proc", "--tmpfs", "/tmp">>
    \o (IF HasFlag(flags, INTERACTIVE) THEN <<"--dev", "/dev">> ELSE DeviceBinds)
    \o (IF HasFlag(flags, ROOT_READ_ONLY) THEN <<"--remount-ro", "/">> ELSE <<>>)
    \o MarkBinds(marks)
    \o <<"--unshare-user", "--uid", "0", "--gid", "0">>
    \o command

\* SandboxBwrap.run: the argument vector of the launcher
bwrap_command(command, flags, cwd, marks) ==
    <<BwrapPath>>
    \o <<"--unshare-pid">>
    \o <<"--bind", get_mount_source("/"), "/">>
    \o (IF ~HasFlag(flags, NETWORK_ENABLED) THEN <<"--unshare-net">> ELSE <<>>)
    \o (IF cwd # None THEN <<"--chdir", cwd>> ELSE <<>>)
    \o <<"--proc", "/proc", "--tmpfs", "/tmp">>
    \o (IF HasFlag(flags, INTERACTIVE) THEN <<"--dev", "/dev">> ELSE DeviceBinds)
    \o MarkBinds(marks)
    \o (IF HasFlag(flags, ROOT_READ_ONLY) THEN <<"--remount-ro", "/">> ELSE <<>>)
    \o <<"--unshare-user", "--uid", "0", "--gid", "0">>
    \o command

-----------------------------------------------------------------------------
(* The root directory of the sandbox on the host, and what a run of the    *)
(* launcher does to it.  tmp, dev and proc are absent, an empty directory  *)
(* ("empty") or a directory with something staged in it ("full"); devices  *)
(* tells whether the device nodes the launcher binds are left in dev.      *)

ImplError == [type |-> "ImplError"]
AssertionError == [type |-> "AssertionError"]
ProgramNotFoundError == [type |-> "ProgramNotFoundError"]
OSError == [type |-> "OSError"]
BodyError == [type |-> "BodyError"]
KeyboardInterrupt == [type |-> "KeyboardInterrupt"]
NameError == [type |-> "NameError"]

BaseDirs == <<"tmp", "dev", "proc">>

DirStates == {"absent", "empty", "full"}

EmptyRoot ==
    [tmp |-> "absent", dev |-> "absent", proc |-> "absent", devices |-> FALSE,
     files |-> {}]

Roots == {[EmptyRoot EXCEPT !.tmp = t, !.dev = d, !.proc = p] :
             t \in DirStates, d \in DirStates, p \in DirStates}

\* try_remove_device: max_tries
max_tries == 1000

\* the processes of a launch: the launcher, and what psutil lists as the
\* children of each process, in the order it lists them
BwrapPid == 1
Pids == 1 .. 5
NoChildren == [pid \in Pids |-> <<>>]
ProcessTrees ==
    {NoChildren,
     [NoChildren EXCEPT ![1] = <<2>>],
     [NoChildren EXCEPT ![1] = <<2>>, ![2] = <<3>>],
     [NoChildren EXCEPT ![1] = <<2, 4>>, ![4] = <<5>>],
     [NoChildren EXCEPT ![1] = <<2, 4>>, ![2] = <<3, 5>>]}

\* os.getpgid: every process in the group of the launcher, or the command a
\* group leader
ProcessGroups ==
    {[pid \in Pids |-> BwrapPid],
     [pid \in Pids |-> IF pid \in {3, 5} THEN 3 ELSE BwrapPid]}

\* the requests that reach the caller while it waits for the launcher
Requests == {"terminate", "suspend", "resume"}
RequestLists ==
    {<<>>} \cup {<<r>> : r \in Requests} \cup {<<r, q>> : r, q \in Requests}

\* the launcher leaves the mount points it made ("created"), leaves the root
\* as it found it ("asbefore"), or also removes the empty directories it
\* mounted on ("cleaned"); after it has exited, os.unlink of a device node
\* raises EBUSY at the first busy attempts (max_tries + 1: at every attempt
\* that try_remove_device makes) and after them succeeds (error None) or
\* raises error; the launcher is spawned and waited for ("ok"), Popen raises
\* ("fails"), or the wait is left by an exception ("interrupted"); early are
\* the requests that arrive when the hooks are installed and Popen has not
\* returned yet, requests those that arrive during the wait
BusyFor == {0, 1, max_tries - 1, max_tries, max_tries + 1}
UnlinkErrors == {None, "ENOENT", "EACCES"}
QuietLauncher ==
    [leaves |-> "created", busy |-> 0, error |-> None, spawn |-> "ok",
     requests |-> <<>>, early |-> <<>>,
     tree |-> [NoChildren EXCEPT ![1] = <<2>>, ![2] = <<3>>],
     pgid |-> [pid \in Pids |-> IF pid \in {3, 5} THEN 3 ELSE BwrapPid]]
Launchers ==
    {[QuietLauncher EXCEPT !.leaves = leaves, !.busy = busy, !.error = error] :
        leaves \in {"created", "asbefore", "cleaned"}, busy \in BusyFor,
        error \in UnlinkErrors}

\* one call made on the host
Event(op, arg) == [op |-> op, arg |-> arg, errno |-> None, attempts |-> 0]

\* existing_basedirs = {directory: os.path.exists(...) for directory in [...]}
existing_basedirs(r) == [b \in {"tmp", "dev", "proc"} |-> r[b] # "absent"]

\* the root after the launcher has run the command and has exited
bwrap(r, flags, l) ==
    CASE l.leaves = "created" ->
            [r EXCEPT !.tmp = IF @ = "absent" THEN "empty" ELSE @,
                      !.dev = IF @ = "absent" THEN "empty" ELSE @,
                      !.proc = IF @ = "absent" THEN "empty" ELSE @,
                      !.devices = @ \/ ~HasFlag(flags, INTERACTIVE)]
      [] l.leaves = "cleaned" ->
            [r EXCEPT !.tmp = IF @ = "empty" THEN "absent" ELSE @,
                      !.dev = IF @ = "empty" /\ ~r.devices THEN "absent" ELSE @,
                      !.proc = IF @ = "empty" THEN "absent" ELSE @]
      [] OTHER -> r

\* os.unlink(device_path): the errno of the OSError it raises, or None
os_unlink(present, l, attempt) ==
    IF ~present THEN "ENOENT"
    ELSE IF attempt <= l.busy THEN "EBUSY"
    ELSE l.error

\* a loop that tries again after every error but "already removed"
retried_any(errno) == errno \notin {None, "ENOENT"}

\* try_remove_device: if e.errno == errno.EBUSY
retried(errno) == errno = "EBUSY"

\* try_remove_device: if tries < max_tries
retry(tries) == tries < max_tries

\* SandboxBwrap.try_remove_device: tries counts the attempts that raised
\* EBUSY; the loop goes round again while os.unlink raises EBUSY and retry
\* holds, so it is left with the first value of tries of which this fails.
\* Gives the number of os.unlink calls and the errno the loop ends with
\* (None, ENOENT: the loop is left by break; otherwise the error is raised
\* again).
try_remove_device(present, l) ==
    LET again(tries) == retried(os_unlink(present, l, tries + 1)) /\ retry(tries)
        last == CHOOSE tries \in 0 .. max_tries :
                    ~again(tries) /\ \A t \in 0 .. tries - 1 : again(t)
    IN  [attempts |-> last + 1, errno |-> os_unlink(present, l, last + 1)]

\* for device in self.DEVICES: self.try_remove_device(device_path)
remove_devices(r, l) ==
    LET o == try_remove_device(r.devices, l)
        removal(device) ==
            [op |-> "try_remove_device", arg |-> device, errno |-> o.errno,
             attempts |-> o.attempts]
    IN  IF o.errno \notin {None, "ENOENT"}
        THEN [root |-> r, trace |-> <<removal(DEVICES[1])>>, raised |-> TRUE]
        ELSE [root |-> [r EXCEPT !.devices = FALSE],
              trace |-> [i \in 1 .. Len(DEVICES) |-> removal(DEVICES[i])],
              raised |-> FALSE]

\* os.rmdir(base_directory): the errno of the OSError it raises, or None
os_rmdir(r, basedir) ==
    IF r[basedir] = "absent" THEN "ENOENT"
    ELSE IF r[basedir] = "full" \/ (basedir = "dev" /\ r.devices) THEN "ENOTEMPTY"
    ELSE None

\* a handler that passes on every OSError of os.rmdir
tolerated_all(errno) == TRUE

\* try: os.rmdir(base_directory) except FileNotFoundError: pass
tolerated(errno) == errno \in {None, "ENOENT"}

\* for basedir in ['tmp', 'dev', 'proc'], from the i-th on: the directories
\* that were not there before the launch are skipped, the others removed
RECURSIVE remove_basedirs(_, _, _)
remove_basedirs(r, existing, i) ==
    IF i > Len(BaseDirs)
    THEN [root |-> r, trace |-> <<>>, raised |-> FALSE]
    ELSE LET basedir == BaseDirs[i]
             errno == os_rmdir(r, basedir)
             removal == [op |-> "rmdir", arg |-> basedir, errno |-> errno,
                         attempts |-> 1]
             rest == remove_basedirs(IF errno = None
                                     THEN [r EXCEPT ![basedir] = "absent"]
                                     ELSE r, existing, i + 1)
         IN  IF ~existing[basedir]
             THEN remove_basedirs(r, existing, i + 1)
             ELSE IF ~tolerated(errno)
             THEN [root |-> r, trace |-> <<removal>>, raised |-> TRUE]
             ELSE [rest EXCEPT !.trace = <<removal>> \o @]

\* a mount scope that is left before its body runs
mounted_left_early(body) ==
    <<Event("mounted", "enter"), Event("mounted", "exit")>> \o body

\* with ExitStack() as stack: stack.enter_context(mount_map.mounted(self))
mounted(body) ==
    <<Event("mounted", "enter")>> \o body \o <<Event("mounted", "exit")>>

\* get_user_proc: return None (no process; the pids are positive)
NoProcess == 0

\* a lookup that gives the launcher itself
get_user_proc_launcher(tree, bwrap_pid, grand_child) == bwrap_pid

\* get_user_proc: the first child of the launcher, or the first child of
\* that child; NoProcess when there is none
get_user_proc(tree, bwrap_pid, grand_child) ==
    LET bwrap_children == tree[bwrap_pid]
    IN  IF bwrap_children # <<>>
        THEN IF grand_child
             THEN LET bwrap_grand_children == tree[bwrap_children[1]]
                  IN  IF bwrap_grand_children # <<>>
                      THEN bwrap_grand_children[1]
                      ELSE NoProcess
             ELSE bwrap_children[1]
        ELSE NoProcess

\* a signal sent to a process (kill) or to a process group (killpg)
Signal(op, target, signal) ==
    [op |-> op, arg |-> target, errno |-> None, attempts |-> 0, signal |-> signal]

\* the variable process of run_bwrap before subprocess.Popen has returned:
\* the hooks read it as a free variable
Unbound == [unbound |-> TRUE]

\* reading a free variable that has no value yet raises NameError
Unassigned(name) ==
    [op |-> "raise", arg |-> name, errno |-> "NameError", attempts |-> 0]

\* terminate_bwrap: if process: ... user_proc.kill()
terminate_bwrap(l, process) ==
    LET user_proc == get_user_proc(l.tree, process.arg, FALSE)
    IN  IF process = Unbound THEN <<Unassigned("process")>>
        ELSE IF user_proc # NoProcess
        THEN <<Signal("kill", user_proc, "SIGKILL")>>
        ELSE <<>>

\* suspend_bwrap: if process: ...
\* os.killpg(os.getpgid(user_proc.pid), signal.SIGSTOP)
suspend_bwrap(l, process) ==
    LET user_proc == get_user_proc(l.tree, process.arg, TRUE)
    IN  IF process = Unbound THEN <<Unassigned("process")>>
        ELSE IF user_proc # NoProcess
        THEN <<Signal("killpg", l.pgid[user_proc], "SIGSTOP")>>
        ELSE <<>>

\* resume_bwrap: if process: ...
\* os.killpg(os.getpgid(user_proc.pid), signal.SIGCONT)
resume_bwrap(l, process) ==
    LET user_proc == get_user_proc(l.tree, process.arg, TRUE)
    IN  IF process = Unbound THEN <<Unassigned("process")>>
        ELSE IF user_proc # NoProcess
        THEN <<Signal("killpg", l.pgid[user_proc], "SIGCONT")>>
        ELSE <<>>

\* _signals.suspendable(suspend_bwrap, resume_bwrap), entered on the stack:
\* the pair is installed while the body runs
suspendable(body) ==
    <<Event("suspendable", "enter")>> \o body \o <<Event("suspendable", "exit")>>

\* _signals.terminator(terminate_bwrap), entered on the stack
terminator(body) ==
    <<Event("terminator", "enter")>> \o body \o <<Event("terminator", "exit")>>

\* a launch that installs the hooks whether it is interactive or not
supervised_always(interactive) == TRUE

\* run_bwrap: the hooks are installed unless the launch is interactive
supervised(interactive) == ~interactive

\* run_bwrap: new_session
new_session(interactive) == ~interactive

\* what the installed hooks do at the requests that arrive, one after the
\* other, while process has this value
RECURSIVE handled(_, _, _)
handled(l, process, requests) ==
    IF requests = <<>> THEN <<>>
    ELSE (CASE Head(requests) = "terminate" -> terminate_bwrap(l, process)
            [] Head(requests) = "suspend" -> suspend_bwrap(l, process)
            [] OTHER -> resume_bwrap(l, process))
         \o handled(l, process, Tail(requests))

\* subprocess.Popen(argv, ..., stdin=stdin, start_new_session=new_session)
Popen(l, stdin, start_new_session) ==
    [op |-> "Popen", arg |-> BwrapPid,
     errno |-> IF l.spawn = "fails" THEN "ENOEXEC" ELSE None, attempts |-> 0,
     stdin |-> stdin, start_new_session |-> start_new_session]

\* process.communicate(): returns when the launcher has exited, unless an
\* exception leaves it
communicate(l) ==
    [op |-> "communicate", arg |-> BwrapPid,
     errno |-> IF l.spawn = "interrupted" THEN "EINTR" ELSE None, attempts |-> 0]

\* a launch that does not wait for the launcher
run_bwrap_detached(l, stdin, interactive, exit_status) ==
    [trace |-> <<Popen(l, stdin, new_session(interactive))>>,
     raised |-> FALSE, error |-> OSError, exit_code |-> exit_status]

\* whether one of these hook invocations raised
raises(events) == \E i \in 1 .. Len(events) : events[i].op = "raise"

\* run_bwrap from process.communicate() on, with the hooks' doings before
\* Popen returned (early) and the outcome of Popen (process): what the launch
\* does on the host, the exception that leaves it (error, when raised), and
\* exit_code = process.poll()
communicated(l, interactive, exit_status, early, process) ==
    LET launch == IF process.errno # None
                  THEN early \o <<process>>
                  ELSE early \o <<process>>
                       \o (IF supervised(interactive)
                           THEN handled(l, process, l.requests)
                           ELSE <<>>)
                       \o <<communicate(l)>>
    IN  [trace |-> IF supervised(interactive)
                   THEN suspendable(terminator(launch))
                   ELSE launch,
         raised |-> process.errno = "NameError" \/ l.spawn # "ok",
         error |-> IF process.errno = "NameError" THEN NameError
                   ELSE IF l.spawn = "interrupted" THEN KeyboardInterrupt
                   ELSE OSError,
         exit_code |-> exit_status]

\* run_bwrap from subprocess.Popen on: an exception of a hook leaves the
\* Popen call it arrived in
spawned(l, stdin, interactive, exit_status, early) ==
    communicated(l, interactive, exit_status, early,
                 [Popen(l, stdin, new_session(interactive))
                     EXCEPT !.errno = IF raises(early) THEN "NameError" ELSE @])

\* SandboxBwrap.run_bwrap: the hooks are installed, then the launcher is
\* spawned and waited for; requests may arrive from the moment the hooks are
\* installed, when process has no value yet
run_bwrap(l, stdin, interactive, exit_status) ==
    spawned(l, stdin, interactive, exit_status,
            IF supervised(interactive) THEN handled(l, Unbound, l.early)
            ELSE <<>>)

\* a run that gives every launch the standard input of the caller
stdin_inherited(flags) == "sys.stdin"

\* SandboxBwrap.run: stdin = sys.stdin, or the null device opened on the stack
stdin(flags) == IF HasFlag(flags, INTERACTIVE) THEN "sys.stdin" ELSE "/dev/null"

\* stack.enter_context(open(os.devnull, "r")): closed when the stack unwinds
opened(file, body) ==
    IF file = "sys.stdin" THEN body
    ELSE <<Event("open", file)>> \o body \o <<Event("close", file)>>

\* SandboxBwrap.run, from existing_basedirs on: what it does on the host,
\* the root it leaves, the exception that leaves it, if any, whether the
\* launcher was waited for to the end, and its exit code
in_sandbox(flags, cwd, exit_status) ==
    LET existing == existing_basedirs(root)
        recorded == [op |-> "existing_basedirs", arg |-> "", errno |-> None,
                     attempts |-> 0, existing |-> existing]
        launch == run_bwrap(launcher, stdin(flags), HasFlag(flags, INTERACTIVE),
                            exit_status)
        launched == IF launcher.spawn = "fails" \/ launch.error = NameError THEN root
                    ELSE bwrap(root, flags, launcher)
        devices == IF launch.raised
                   THEN [root |-> launched, trace |-> <<>>, raised |-> TRUE]
                   ELSE IF ~HasFlag(flags, INTERACTIVE)
                   THEN remove_devices(launched, launcher)
                   ELSE [root |-> launched, trace |-> <<>>, raised |-> FALSE]
        basedirs == IF devices.raised
                    THEN [root |-> devices.root, trace |-> <<>>, raised |-> TRUE]
                    ELSE remove_basedirs(devices.root, existing, 1)
    IN  [root |-> basedirs.root,
         trace |-> <<recorded>>
                   \o mounted(<<Event("makedirs", cwd)>>
                              \o opened(stdin(flags),
                                        <<Event("run_bwrap", cwd)>> \o launch.trace
                                        \o devices.trace \o basedirs.trace)),
         raised |-> basedirs.raised,
         error |-> IF launch.raised THEN launch.error ELSE OSError,
         waited |-> ~launch.raised,
         exit_code |-> launch.exit_code]

-----------------------------------------------------------------------------
(* Running one command.  Each operator gives the set of the outcomes the   *)
(* call can have: the command handed over, if any, and what the call       *)
(* returns or raises.                                                      *)

\* the method that handed the command over, the command, what _run() or
\* subprocess.Popen() was called with, the exit status of the process, and (req) the cwd
\* argument and the work directory of the run() call the command comes from
Handoff(via, command, argv, flags, cwd, env, status, req) ==
    [via |-> via, command |-> command, argv |-> argv, flags |-> flags,
     cwd |-> cwd, env |-> env, status |-> status, req |-> req]

NotHanded(o) == o.handoff = NoHandoff

\* the call raises before it has done anything
Raised(error) ==
    [handoff |-> NoHandoff, result |-> Raise(error), root |-> root, trace |-> <<>>]

\* the arguments of a run() call and the settings of the sandbox at the call
Request(cwd, env) == [cwd |-> cwd, workdir |-> __cwd, env |-> env, environment |-> __env]

\* Sandbox._run: abstract, raises ImplError unless the subclass overrides it;
\* _sandboxbwrap.py defines no _run
_run(command, flags, cwd, env, req) ==
    IF kind = "SandboxImpl"
    THEN {[handoff |-> Handoff("_run", command, command, flags, cwd, env, status, req),
           result |-> Return(status), root |-> root, trace |-> <<>>] :
             status \in ExitCodes}
    ELSE {Raised(ImplError)}

\* run() that raises when the exit code is not zero
run_return_raising(exit_code) ==
    IF exit_code # 0
    THEN Raise([type |-> "SandboxCommandError", exitcode |-> exit_code])
    ELSE Return(exit_code)

\* SandboxBwrap.run: return exit_code
run_return(exit_code) == Return(exit_code)

\* a run that looks for the launcher when it is about to start it
tool_not_found_late(looked_up) ==
    [handoff |-> NoHandoff, result |-> Raise(ProgramNotFoundError), root |-> root,
     trace |-> mounted(<<Event("makedirs", "/")>> \o looked_up)]

\* utils.get_host_tool('bwrap') does not find the launcher: run() raises
\* out of the construction of the argument vector
tool_not_found(looked_up) ==
    [handoff |-> NoHandoff, result |-> Raise(ProgramNotFoundError), root |-> root,
     trace |-> looked_up]

\* SandboxBwrap.run
SandboxBwrap_run(command, flags, cwd, env, label) ==
    LET cwd1 == IF cwd = None THEN _get_work_directory(None) ELSE cwd
        env1 == IF env = NoEnv THEN _get_environment(None, NoEnv) ELSE env
        argv == bwrap_command(command, flags, cwd1, __directories)
        root_mount_source == <<Event("get_mount_source", "/")>>
        host_tool == <<Event("get_host_tool", "bwrap")>>
        mount_sources ==
            [i \in 1 .. Len(__directories) |->
                Event("get_mount_source", __directories[i].directory)]
        launches == {[status |-> status, o |-> in_sandbox(flags, cwd1, status)] :
                        status \in ExitCodes}
    IN  IF label # None
        THEN \* run() got an unexpected keyword argument 'label'
             {Raised(TypeError)}
        ELSE IF env1 = TypeError
        THEN {Raised(TypeError)}
        ELSE \* utils.get_host_tool('bwrap') does not find the launcher
             {tool_not_found(root_mount_source \o host_tool)}
             \cup
             \* Popen or the wait raises; or the launcher runs and exits, and
             \* the cleanup succeeds or raises
             {[handoff |-> Handoff("run", command, argv, flags, cwd1, env1,
                                 \* no exit status when the launcher was
                                 \* not waited for to the end
                                 IF launch.o.waited THEN launch.status ELSE None,
                                 Request(cwd, env)),
               result |-> IF launch.o.raised THEN Raise(launch.o.error)
                          ELSE run_return(launch.o.exit_code),
               root |-> launch.o.root,
               trace |-> root_mount_source \o host_tool \o mount_sources
                         \o launch.o.trace] :
                 launch \in launches}

\* Sandbox.run; the outcome also gives the children of the groups
Sandbox_run(command, flags, cwd, env, label) ==
    LET cwd1 == _get_work_directory(cwd)
        env1 == _get_environment(cwd1, env)
        unchanged(error) ==
            {[children |-> children, handoff |-> NoHandoff, result |-> Raise(error),
              root |-> root, trace |-> <<>>]}
    IN  IF env1 = TypeError
        THEN unchanged(TypeError)
        ELSE IF __batch # NoBatch
        THEN IF flags # __batch.flags
             THEN unchanged(AssertionError)
             ELSE {[children |->
                       append(children, __batch.current_group,
                              BatchCommand(NextId(children), command, cwd1, env1,
                                           label, flags, Request(cwd, env))),
                    handoff |-> NoHandoff,
                    result |-> ReturnNone,
                    root |-> root,
                    trace |-> <<>>]}
        ELSE {[children |-> children, handoff |-> o.handoff, result |-> o.result,
               root |-> o.root, trace |-> o.trace] :
                 o \in _run(command, flags, cwd1, env1, Request(cwd, env))}

\* sandbox.run(...): SandboxBwrap.run overrides Sandbox.run
run(command, flags, cwd, env, label) ==
    IF kind = "SandboxBwrap"
    THEN {[children |-> children, handoff |-> o.handoff, result |-> o.result,
            root |-> o.root, trace |-> o.trace] :
             o \in SandboxBwrap_run(command, flags, cwd, env, label)}
    ELSE Sandbox_run(command, flags, cwd, env, label)

RECURSIVE invoke(_)

\* Sandbox._callback: the call is appended to the current group of the open
\* batch, or the callback is invoked
_callback(callback) ==
    IF __batch # NoBatch
    THEN {[children |-> append(children, __batch.current_group,
                               BatchCall(NextId(children), callback)),
           handoff |-> NoHandoff, result |-> ReturnNone, root |-> root,
           trace |-> <<>>]}
    ELSE invoke(callback)

\* callback(): a callback that does nothing to the sandbox ("noop"), one
\* that runs a command in it and drops the exit code ("run"), or one that
\* calls sandbox._callback with a callback that does nothing ("_callback")
invoke(callback) ==
    CASE callback = "run" ->
            {[children |-> o.children, handoff |-> o.handoff,
              result |-> IF o.result.kind = "raise" THEN o.result ELSE ReturnNone,
              root |-> o.root, trace |-> o.trace] :
                o \in run(CallbackCommand, NONE, None, NoEnv, None)}
      [] callback = "_callback" -> _callback("noop")
      [] OTHER ->
            {[children |-> children, handoff |-> NoHandoff, result |-> ReturnNone,
              root |-> root, trace |-> <<>>]}

-----------------------------------------------------------------------------
(* Executing the batch *)

SafeWords == {"sh", "make", "install", "true"}

\* shlex.quote
shlex_quote(word) == IF word \in SafeWords THEN word ELSE "'" \o word \o "'"

\* ' '.join(shlex.quote(cmd) for cmd in command.command), word by word
cmdline(command) == [i \in 1 .. Len(command) |-> shlex_quote(command[i])]

\* the error that names the command by its argv whether it has a label or not
SandboxCommandError_argv(command, exitcode, collect) ==
    [type |-> "SandboxCommandError",
     label |-> cmdline(command.command),
     exitcode |-> exitcode,
     collect |-> collect]

\* SandboxCommandError("Command '{}' failed with exitcode {}", collect=collect)
SandboxCommandError(command, exitcode, collect) ==
    [type |-> "SandboxCommandError",
     label |-> IF command.label # None /\ command.label # ""
               THEN <<command.label>> ELSE cmdline(command.command),
     exitcode |-> exitcode,
     collect |-> collect]

\* execute_command without the check of the exit code
execute_command_unchecked(batch, command) ==
    _run(command.command, batch.flags, command.cwd, command.env, command.req)

\* a batch that runs each command with the settings the sandbox has when
\* the command executes
execute_command_current(batch, command) ==
    _run(command.command, batch.flags, _get_work_directory(command.req.cwd),
         _get_environment(command.req.cwd, command.req.env), command.req)

\* _SandboxBatch.execute_command
execute_command(batch, command) ==
    {IF o.result.kind = "return" /\ o.result.value # 0
     THEN [o EXCEPT
              !.result = Raise(SandboxCommandError(command, o.result.value, batch.collect))]
     ELSE o :
        o \in _run(command.command, batch.flags, command.cwd, command.env, command.req)}

\* _SandboxBatch.execute_call
execute_call(call_item) == invoke(call_item.callback)

-----------------------------------------------------------------------------
(* The state after Sandbox.__init__ *)

Kinds == {"Sandbox", "SandboxBwrap", "SandboxImpl"}

InitSandbox ==
    /\ __cwd = None
    /\ __env = NoEnv
    /\ __directories = <<>>
    /\ __batch = NoBatch
    /\ children = <<>>
    /\ scopes = <<>>
    /\ exec = NoExec
    /\ executed = <<>>
    /\ handoff = NoHandoff
    /\ result = Idle
    /\ call = Idle
    /\ trace = <<>>

Init == kind \in Kinds /\ InitSandbox /\ root = EmptyRoot /\ launcher = QuietLauncher

-----------------------------------------------------------------------------
(* The calls of the caller.  The caller makes one call at a time: it gets   *)
(* the outcome of a call (Continue) before it makes the next one, and it is *)
(* blocked while a batch executes.  The tree of a batch that is over and    *)
(* the record of its execution are dropped when the caller goes on.         *)

Kept(value) == IF __batch = NoBatch THEN <<>> ELSE value

Continue ==
    /\ call # Idle
    /\ exec = NoExec
    /\ call' = Idle
    /\ result' = Idle
    /\ handoff' = NoHandoff
    /\ trace' = <<>>
    /\ children' = Kept(children)
    /\ executed' = Kept(executed)
    /\ UNCHANGED <<root, launcher, kind, __cwd, __env, __directories, __batch, scopes, exec>>

\* Sandbox.set_environment
SetEnvironment(environment) ==
    /\ call = Idle
    /\ __env' = environment
    /\ call' = [op |-> "set_environment"]
    /\ result' = ReturnNone
    /\ handoff' = NoHandoff
    /\ trace' = <<>>
    /\ UNCHANGED <<root, launcher, kind, __cwd, __directories, __batch, children, scopes, exec,
                   executed>>

\* Sandbox.set_work_directory
SetWorkDirectory(directory) ==
    /\ call = Idle
    /\ __cwd' = directory
    /\ call' = [op |-> "set_work_directory"]
    /\ result' = ReturnNone
    /\ handoff' = NoHandoff
    /\ trace' = <<>>
    /\ UNCHANGED <<root, launcher, kind, __env, __directories, __batch, children, scopes, exec,
                   executed>>

\* Sandbox.mark_directory
MarkDirectory(directory, artifact) ==
    /\ call = Idle
    /\ Len(__directories) < MaxMarks
    /\ __directories' = Append(__directories,
                               [directory |-> directory, artifact |-> artifact])
    /\ call' = [op |-> "mark_directory"]
    /\ result' = ReturnNone
    /\ handoff' = NoHandoff
    /\ trace' = <<>>
    /\ UNCHANGED <<root, launcher, kind, __cwd, __env, __batch, children, scopes, exec,
                   executed>>

\* sandbox.run(command, flags, cwd=cwd, env=env, label=label)
Run(command, flags, cwd, env, label) ==
    /\ call = Idle
    /\ __batch # NoBatch => ItemCount(children) < MaxItems
    /\ \E o \in run(command, flags, cwd, env, label) :
          /\ children' = o.children
          /\ handoff' = o.handoff
          /\ result' = o.result
          /\ root' = o.root
          /\ trace' = o.trace
    /\ call' = [op |-> "run", flags |-> flags]
    /\ UNCHANGED <<launcher, kind, __cwd, __env, __directories, __batch, scopes, exec,
                   executed>>

\* Sandbox._callback
Callback(callback) ==
    /\ call = Idle
    /\ __batch # NoBatch => ItemCount(children) < MaxItems
    /\ \E o \in _callback(callback) :
          /\ children' = o.children
          /\ handoff' = o.handoff
          /\ result' = o.result
          /\ root' = o.root
          /\ trace' = o.trace
    /\ call' = [op |-> "_callback"]
    /\ UNCHANGED <<launcher, kind, __cwd, __env, __directories, __batch, scopes, exec,
                   executed>>

\* _SandboxBatch.__init__, by Sandbox._create_batch
SandboxBatch(flags, collect) ==
    [flags |-> flags, collect |-> collect, current_group |-> 1]

\* a nested batch without the assertion on the flags
nested_batch_unchecked(flags, label, collect) ==
    LET group == Len(children) + 1
        parent_group == __batch.current_group
    IN  [children |-> Append(append(children, parent_group,
                                    BatchGroup(group, label)), <<>>),
         batch |-> [__batch EXCEPT !.current_group = group],
         scopes |-> Append(scopes, parent_group),
         result |-> ReturnNone]

\* a nested batch that gives its collect argument to the open batch
nested_batch_collecting(flags, label, collect) ==
    LET group == Len(children) + 1
        parent_group == __batch.current_group
    IN  IF flags # __batch.flags
        THEN [children |-> children, batch |-> __batch, scopes |-> scopes,
              result |-> Raise(AssertionError)]
        ELSE [children |-> Append(append(children, parent_group,
                                         BatchGroup(group, label)), <<>>),
              batch |-> [__batch EXCEPT !.current_group = group,
                                        !.collect = collect],
              scopes |-> Append(scopes, parent_group),
              result |-> ReturnNone]

\* Sandbox.batch, a nested batch: the group is appended to the current group
\* and becomes the current group; the collect argument is not used
nested_batch(flags, label, collect) ==
    LET group == Len(children) + 1
        parent_group == __batch.current_group
    IN  IF flags # __batch.flags
        THEN [children |-> children, batch |-> __batch, scopes |-> scopes,
              result |-> Raise(AssertionError)]
        ELSE [children |-> Append(append(children, parent_group,
                                         BatchGroup(group, label)), <<>>),
              batch |-> [__batch EXCEPT !.current_group = group],
              scopes |-> Append(scopes, parent_group),
              result |-> ReturnNone]

\* Sandbox.batch: entering the with block
Batch(flags, label, collect) ==
    /\ call = Idle
    /\ IF __batch # NoBatch
       THEN /\ ItemCount(children) < MaxItems
            /\ LET o == nested_batch(flags, label, collect)
               IN  /\ children' = o.children
                   /\ __batch' = o.batch
                   /\ scopes' = o.scopes
                   /\ result' = o.result
            /\ UNCHANGED executed
       ELSE /\ __batch' = SandboxBatch(flags, collect)
            /\ children' = << <<>> >>
            /\ scopes' = <<>>
            /\ executed' = <<>>
            /\ result' = ReturnNone
    /\ handoff' = NoHandoff
    /\ trace' = <<>>
    /\ call' = [op |-> "batch", flags |-> flags, collect |-> collect]
    /\ UNCHANGED <<root, launcher, kind, __cwd, __env, __directories, exec>>

\* _SandboxBatch.execute: main_group.execute(batch)
execute(batch) == [batch |-> batch, stack |-> <<[group |-> 1, index |-> 1]>>]

\* leaving a nested with block executes the batch
ExitNested_executing(raised) ==
    /\ call = Idle
    /\ __batch # NoBatch
    /\ scopes # <<>>
    /\ __batch' = [__batch EXCEPT !.current_group = scopes[Len(scopes)]]
    /\ scopes' = SubSeq(scopes, 1, Len(scopes) - 1)
    /\ exec' = execute(__batch)
    /\ result' = IF raised THEN Raise(BodyError) ELSE ReturnNone
    /\ handoff' = NoHandoff
    /\ trace' = <<>>
    /\ call' = [op |-> "exit_nested"]
    /\ UNCHANGED <<root, launcher, kind, __cwd, __env, __directories, children, executed>>

\* a nested batch without the finally clause: when the body raises, the
\* nested group stays the current group
ExitNested_unrestored(raised) ==
    /\ call = Idle
    /\ __batch # NoBatch
    /\ scopes # <<>>
    /\ __batch' = IF raised THEN __batch
                  ELSE [__batch EXCEPT !.current_group = scopes[Len(scopes)]]
    /\ scopes' = SubSeq(scopes, 1, Len(scopes) - 1)
    /\ result' = IF raised THEN Raise(BodyError) ELSE ReturnNone
    /\ handoff' = NoHandoff
    /\ trace' = <<>>
    /\ call' = [op |-> "exit_nested"]
    /\ UNCHANGED <<root, launcher, kind, __cwd, __env, __directories, children, exec, executed>>

\* Sandbox.batch, a nested batch: leaving the with block, normally or by an
\* exception of the body (finally: current_group = parent_group)
ExitNested(raised) ==
    /\ call = Idle
    /\ __batch # NoBatch
    /\ scopes # <<>>
    /\ __batch' = [__batch EXCEPT !.current_group = scopes[Len(scopes)]]
    /\ scopes' = SubSeq(scopes, 1, Len(scopes) - 1)
    /\ result' = IF raised THEN Raise(BodyError) ELSE ReturnNone
    /\ handoff' = NoHandoff
    /\ trace' = <<>>
    /\ call' = [op |-> "exit_nested"]
    /\ UNCHANGED <<root, launcher, kind, __cwd, __env, __directories, children, exec, executed>>

\* a top-level batch that executes before the finally clause: the batch is
\* still open while it executes
ExitBatch_open ==
    /\ call = Idle
    /\ __batch # NoBatch
    /\ scopes = <<>>
    /\ exec' = execute(__batch)
    /\ result' = [kind |-> "executing"]
    /\ handoff' = NoHandoff
    /\ trace' = <<>>
    /\ call' = [op |-> "exit_batch"]
    /\ UNCHANGED <<root, launcher, kind, __cwd, __env, __directories, __batch, children, scopes,
                   executed>>

\* Sandbox.batch, the top-level batch: leaving the with block normally
\* (finally: __batch = None, then batch.execute())
ExitBatch ==
    /\ call = Idle
    /\ __batch # NoBatch
    /\ scopes = <<>>
    /\ __batch' = NoBatch
    /\ exec' = execute(__batch)
    /\ result' = [kind |-> "executing"]
    /\ handoff' = NoHandoff
    /\ trace' = <<>>
    /\ call' = [op |-> "exit_batch"]
    /\ UNCHANGED <<root, launcher, kind, __cwd, __env, __directories, children, scopes, executed>>

\* a top-level batch without the finally clause: the body raises and the
\* batch stays open
ExitBatchRaised_open ==
    /\ call = Idle
    /\ __batch # NoBatch
    /\ scopes = <<>>
    /\ result' = Raise(BodyError)
    /\ handoff' = NoHandoff
    /\ trace' = <<>>
    /\ call' = [op |-> "exit_batch"]
    /\ UNCHANGED <<root, launcher, kind, __cwd, __env, __directories, __batch, children, scopes,
                   exec, executed>>

\* a top-level batch that executes in the finally clause: the body raises
\* and the batch executes
ExitBatchRaised_executing ==
    /\ call = Idle
    /\ __batch # NoBatch
    /\ scopes = <<>>
    /\ __batch' = NoBatch
    /\ exec' = execute(__batch)
    /\ result' = Raise(BodyError)
    /\ handoff' = NoHandoff
    /\ trace' = <<>>
    /\ call' = [op |-> "exit_batch"]
    /\ UNCHANGED <<root, launcher, kind, __cwd, __env, __directories, children, scopes, executed>>

\* Sandbox.batch, the top-level batch: the body raises (finally: __batch = None)
ExitBatchRaised ==
    /\ call = Idle
    /\ __batch # NoBatch
    /\ scopes = <<>>
    /\ __batch' = NoBatch
    /\ result' = Raise(BodyError)
    /\ handoff' = NoHandoff
    /\ trace' = <<>>
    /\ call' = [op |-> "exit_batch"]
    /\ UNCHANGED <<root, launcher, kind, __cwd, __env, __directories, children, scopes, exec,
                   executed>>

-----------------------------------------------------------------------------
(* batch.execute(): one step per item, depth first *)

Top == exec.stack[Len(exec.stack)]

AtItem == exec # NoExec /\ Top.index <= Len(children[Top.group])

Item == children[Top.group][Top.index]

\* for item in self.children: the loop moves on to the next item
next_item(stack) == [stack EXCEPT ![Len(stack)].index = @ + 1]

\* _SandboxBatchGroup.execute -> execute_group -> execute_children
ExecuteGroup ==
    /\ AtItem
    /\ Item.type = "Group"
    /\ exec' = [exec EXCEPT !.stack =
                   Append(next_item(@), [group |-> Item.group, index |-> 1])]
    /\ handoff' = NoHandoff
    /\ trace' = <<>>
    /\ UNCHANGED <<root, launcher, kind, __cwd, __env, __directories, __batch, children, scopes,
                   executed, result, call>>

\* an exception leaves batch.execute(); otherwise the loop goes on
after_item(o) ==
    IF o.result.kind = "raise"
    THEN [exec |-> NoExec, result |-> o.result]
    ELSE [exec |-> [exec EXCEPT !.stack = next_item(@)], result |-> result]

\* _SandboxBatchCommand.execute -> execute_command
ExecuteCommand ==
    /\ AtItem
    /\ Item.type = "Command"
    /\ \E o \in execute_command(exec.batch, Item) :
          /\ handoff' = o.handoff
          /\ root' = o.root
          /\ trace' = o.trace
          /\ exec' = after_item(o).exec
          /\ result' = after_item(o).result
          /\ executed' = IF NotHanded(o)
                         THEN executed
                         ELSE Append(executed, [id |-> Item.id, type |-> "Command",
                                                exitcode |-> o.handoff.status])
    /\ UNCHANGED <<launcher, kind, __cwd, __env, __directories, __batch, children, scopes,
                   call>>

\* _SandboxBatchCall.execute -> execute_call
ExecuteCall ==
    /\ AtItem
    /\ Item.type = "Call"
    /\ \E o \in execute_call(Item) :
          /\ children' = o.children
          /\ handoff' = o.handoff
          /\ root' = o.root
          /\ trace' = o.trace
          /\ exec' = after_item(o).exec
          /\ result' = after_item(o).result
    /\ executed' = Append(executed, [id |-> Item.id, type |-> "Call", exitcode |-> 0])
    /\ UNCHANGED <<launcher, kind, __cwd, __env, __directories, __batch, scopes, call>>

\* execute_children returns: back in the parent group, or batch.execute() is done
ReturnFromGroup ==
    /\ exec # NoExec
    /\ Top.index > Len(children[Top.group])
    /\ IF Len(exec.stack) = 1
       THEN /\ exec' = NoExec
            /\ result' = ReturnNone
       ELSE /\ exec' = [exec EXCEPT !.stack = SubSeq(@, 1, Len(@) - 1)]
            /\ UNCHANGED result
    /\ handoff' = NoHandoff
    /\ trace' = <<>>
    /\ UNCHANGED <<root, launcher, kind, __cwd, __env, __directories, __batch, children, scopes,
                   executed, call>>

Execute == ExecuteGroup \/ ExecuteCommand \/ ExecuteCall \/ ReturnFromGroup

-----------------------------------------------------------------------------
(* Specifications *)

Flags == {NONE, ROOT_READ_ONLY}
Commands == {<<"sh">>}
Labels == {None, "build"}

\* the batching protocol: every call, with few values for each argument
Next ==
    \/ \E environment \in {[PATH |-> "/usr/bin"]} : SetEnvironment(environment)
    \/ \E command \in Commands, flags \in Flags :
          Run(command, flags, None, NoEnv, None)
    \/ \E callback \in {"noop", "run"} : Callback(callback)
    \/ \E flags \in Flags : Batch(flags, None, None)
    \/ \E raised \in BOOLEAN : ExitNested(raised)
    \/ ExitBatch
    \/ ExitBatchRaised
    \/ Execute
    \/ Continue

Spec == Init /\ [][Next]_vars

-----------------------------------------------------------------------------
(* Properties of the batching protocol *)

\* the commands and calls of group g from item i on, depth first, pre-order
RECURSIVE DepthFirst(_, _, _)
DepthFirst(ch, g, i) ==
    IF i > Len(ch[g])
    THEN <<>>
    ELSE (IF ch[g][i].type = "Group"
          THEN DepthFirst(ch, ch[g][i].group, 1)
          ELSE <<ch[g][i].id>>)
         \o DepthFirst(ch, g, i + 1)

\* the batch is being executed or is over
BatchRan == __batch = NoBatch /\ children # <<>>

Failed(n) == executed[n].type = "Command" /\ executed[n].exitcode # 0

\* C1: when a batch executes, the items executed so far are a prefix of the
\* depth-first order of the tree, only the last of them can be a command with
\* a non-zero exit code, and once a command has failed the execution is over
\* with a SandboxCommandError: nothing after the failing command executes.
C1_FailFast ==
    BatchRan =>
        LET order == DepthFirst(children, 1, 1)
            n == Len(executed)
        IN  /\ n <= Len(order)
            /\ \A i \in 1 .. n : executed[i].id = order[i]
            /\ \A i \in 1 .. n - 1 : ~Failed(i)
            /\ (n > 0 /\ Failed(n)) =>
                  /\ exec = NoExec
                  /\ result.kind = "raise"
                  /\ result.error.type = "SandboxCommandError"

\* a command failed after another item had executed, and the items after it,
\* one of them in a later group, were never executed
C1_Witness ==
    /\ BatchRan
    /\ exec = NoExec
    /\ Len(executed) >= 2
    /\ Failed(Len(executed))
    /\ Len(DepthFirst(children, 1, 1)) > Len(executed)
    /\ \E i \in 1 .. Len(children[1]) : children[1][i].type = "Group"

\* C2: run() while a batch is open (with the flags of the batch and an
\* environment set) returns None, hands nothing to the backend and appends
\* exactly one Command at the end of the current group.
C2_RunIsDeferred ==
    [][(/\ call'.op = "run"
        /\ __batch # NoBatch
        /\ __env # NoEnv
        /\ call'.flags = __batch.flags)
       => /\ result' = ReturnNone
          /\ handoff' = NoHandoff
          /\ trace' = <<>>
          /\ \E item \in Leaves(children') :
                /\ item.type = "Command"
                /\ children' = append(children, __batch.current_group, item)]_vars

\* C3: nothing of a batch executes while a batch scope is open; leaving a
\* nested scope executes nothing; batch.execute() starts only when the
\* outermost scope is left, starts whenever it is left normally, and executes
\* no item twice.
C3_ExecuteOnOutermostExit ==
    [][/\ __batch' # NoBatch => (exec' = NoExec /\ executed' = <<>>)
       /\ Len(scopes') < Len(scopes) =>
             (handoff' = NoHandoff /\ UNCHANGED <<children, exec, executed>>)
       /\ (executed' # executed /\ executed' # <<>>) => exec # NoExec
       /\ (exec = NoExec /\ exec' # NoExec) =>
             /\ __batch # NoBatch
             /\ scopes = <<>>
             /\ __batch' = NoBatch
             /\ executed' = <<>>
       /\ (__batch # NoBatch /\ __batch' = NoBatch /\ result' # Raise(BodyError)) =>
             exec' # NoExec
       /\ \A i, j \in 1 .. Len(executed') :
             i # j => executed'[i].id # executed'[j].id]_vars

\* a batch with a nested group is executing and has executed an item
C3_Witness ==
    /\ exec # NoExec
    /\ Len(children) >= 2
    /\ executed # <<>>

\* C4: batch() with other flags than the open batch raises the assertion and
\* changes nothing: no group is attached, the current group stays, and no
\* item of the batch has executed.
C4_NestedFlagsMismatch ==
    [][(/\ call'.op = "batch"
        /\ __batch # NoBatch
        /\ call'.flags # __batch.flags)
       => /\ result' = Raise(AssertionError)
          /\ handoff' = NoHandoff
          /\ trace' = <<>>
          /\ UNCHANGED <<children, __batch, scopes, exec, executed>>
          /\ executed = <<>>
          /\ exec = NoExec]_vars

\* a nested batch() was refused while the batch had items
C4_Witness ==
    /\ call.op = "batch"
    /\ __batch # NoBatch
    /\ call.flags # __batch.flags
    /\ result = Raise(AssertionError)
    /\ ItemCount(children) >= 2

\* C5: every Command of an open batch was added by a run() with the flags of
\* the batch, and run() with other flags (an environment being set) raises
\* the assertion and leaves the tree unchanged.
C5_CommandFlags ==
    [][/\ __batch' # NoBatch =>
             \A item \in Leaves(children') :
                item.type = "Command" => item.flags = __batch'.flags
       /\ (/\ call'.op = "run"
           /\ __batch # NoBatch
           /\ __env # NoEnv
           /\ call'.flags # __batch.flags)
          => /\ result' = Raise(AssertionError)
             /\ UNCHANGED children]_vars

\* C6: the commands and calls of a batch execute in the order in which run()
\* and _callback() were called, whatever groups they were called in; a batch
\* that ends without an error has executed all of them.
C6_CallOrder ==
    /\ \A i \in 1 .. Len(executed) : executed[i].id = i
    /\ (BatchRan /\ call.op = "exit_batch" /\ exec = NoExec /\ result = ReturnNone) =>
          Len(executed) = Cardinality(Leaves(children))

\* a batch ended without an error; it had an item in a nested group and an
\* item after that group
C6_Witness ==
    /\ BatchRan
    /\ call.op = "exit_batch"
    /\ exec = NoExec
    /\ result = ReturnNone
    /\ \E i \in 1 .. Len(children[1]) :
          /\ children[1][i].type = "Group"
          /\ children[children[1][i].group] # <<>>
          /\ i < Len(children[1])
          /\ children[1][Len(children[1])].type # "Group"

-----------------------------------------------------------------------------
(* The bubblewrap backend alone: every flag combination, marked            *)
(* directories, and every way of giving cwd and env to run()               *)

BwrapCommands == {<<"make", "install">>}

InitBwrap ==
    /\ kind = "SandboxBwrap"
    /\ InitSandbox
    /\ root = EmptyRoot
    /\ launcher = QuietLauncher

NextBwrap ==
    \/ \E environment \in Environments : SetEnvironment(environment)
    \/ \E directory \in Paths : SetWorkDirectory(directory)
    \/ \E directory \in MarkPaths : MarkDirectory(directory, FALSE)
    \/ \E command \in BwrapCommands, flags \in AllFlags, cwd \in {None} \cup Paths,
          env \in {NoEnv} \cup Environments, label \in Labels :
          Run(command, flags, cwd, env, label)
    \/ Continue

SpecBwrap == InitBwrap /\ [][NextBwrap]_vars

-----------------------------------------------------------------------------
(* Properties of running one command *)

\* C7: SandboxBwrap implements _run: whatever a SandboxBwrap hands to the
\* launcher is handed over by _run, and no call on it raises ImplError.
C7_BwrapImplementsRun ==
    kind = "SandboxBwrap" =>
        /\ handoff # NoHandoff => handoff.via = "_run"
        /\ result # Raise(ImplError)

\* the cwd argument, else the work directory of the sandbox, else '/'
EffectiveCwd(req) ==
    IF req.cwd # None THEN req.cwd
    ELSE IF req.workdir # None THEN req.workdir
    ELSE "/"

\* C8: every command handed over runs in the effective cwd and its
\* environment has PWD set to that directory.
C8_PwdIsCwd ==
    handoff # NoHandoff =>
        /\ handoff.cwd = EffectiveCwd(handoff.req)
        /\ "PWD" \in DOMAIN handoff.env
        /\ handoff.env["PWD"] = handoff.cwd

\* C9: run() outside a batch never returns None; the value it returns is the
\* exit status of the process it handed the command to, zero or not, and a
\* non-zero status is not raised as a command failure.
C9_RunReturnsExitStatus ==
    (call.op = "run" /\ __batch = NoBatch) =>
        /\ result # ReturnNone
        /\ result.kind \in {"return", "raise"}
        /\ result.kind = "return" =>
              /\ handoff # NoHandoff
              /\ result = Return(handoff.status)
        /\ result.kind = "raise" => result.error.type # "SandboxCommandError"

\* run() outside a batch on the bubblewrap backend returned a non-zero status
C9_Witness ==
    /\ call.op = "run"
    /\ __batch = NoBatch
    /\ kind = "SandboxBwrap"
    /\ handoff # NoHandoff
    /\ handoff.status # 0
    /\ result = Return(handoff.status)

\* the words of argv from position from on are those of words
At(argv, from, words) ==
    /\ from + Len(words) - 1 <= Len(argv)
    /\ \A i \in 1 .. Len(words) : argv[from + i - 1] = words[i]

Count(argv, word) == Cardinality({i \in 1 .. Len(argv) : argv[i] = word})

MountOptions == {"--bind", "--dev-bind", "--dev", "--proc", "--tmpfs", "--remount-ro"}

\* C11: in the argument vector of the launcher, for every flag combination,
\* the read-only remount of '/' comes after every other mount option and is
\* there exactly when ROOT_READ_ONLY is set; after the bind of the root there
\* is one bind for each mark_directory call, duplicates kept, in the order of
\* the calls, from the mount source of the directory.
C11_RemountLast ==
    (kind = "SandboxBwrap" /\ handoff # NoHandoff) =>
        LET argv == handoff.argv
            marks == __directories
            mounts == {i \in 1 .. Len(argv) : argv[i] \in MountOptions}
            binds == {i \in mounts : argv[i] = "--bind"}
            nth(k) == CHOOSE i \in binds : Cardinality({j \in binds : j < i}) = k - 1
            remounts == {i \in mounts : argv[i] = "--remount-ro"}
        IN  /\ \A i \in remounts :
                  /\ argv[i + 1] = "/"
                  /\ \A j \in mounts : j <= i
            /\ Cardinality(remounts) =
                  (IF HasFlag(handoff.flags, ROOT_READ_ONLY) THEN 1 ELSE 0)
            /\ Cardinality(binds) = 1 + Len(marks)
            /\ argv[nth(1) + 2] = "/"
            /\ \A m \in 1 .. Len(marks) :
                  /\ argv[nth(m + 1) + 1] = get_mount_source(marks[m].directory)
                  /\ argv[nth(m + 1) + 2] = marks[m].directory

\* a launch with a read-only root and the same directory marked twice
C11_Witness ==
    /\ kind = "SandboxBwrap"
    /\ handoff # NoHandoff
    /\ HasFlag(handoff.flags, ROOT_READ_ONLY)
    /\ Len(__directories) = 2
    /\ __directories[1].directory = __directories[2].directory

\* C12: the devices of the launcher depend on INTERACTIVE alone: without it
\* the argument vector dev-binds each of /dev/full, /dev/null, /dev/urandom,
\* /dev/random and /dev/zero onto itself, once, binds no other device and
\* has no --dev; with it the argument vector has --dev /dev once and no
\* --dev-bind.
C12_Devices ==
    (kind = "SandboxBwrap" /\ handoff # NoHandoff) =>
        LET argv == handoff.argv
            devbinds == {i \in 1 .. Len(argv) : argv[i] = "--dev-bind"}
            whole == {i \in 1 .. Len(argv) : argv[i] = "--dev"}
            minimal == {"/dev/full", "/dev/null", "/dev/urandom", "/dev/random",
                        "/dev/zero"}
        IN  IF HasFlag(handoff.flags, INTERACTIVE)
            THEN /\ devbinds = {}
                 /\ Cardinality(whole) = 1
                 /\ \A i \in whole : argv[i + 1] = "/dev"
            ELSE /\ whole = {}
                 /\ Cardinality(devbinds) = Cardinality(minimal)
                 /\ \A i \in devbinds :
                       argv[i + 1] \in minimal /\ argv[i + 2] = argv[i + 1]
                 /\ \A device \in minimal :
                       \E i \in devbinds : argv[i + 1] = device

\* a launch that is not interactive, with every other flag set
C12_Witness ==
    /\ kind = "SandboxBwrap"
    /\ handoff # NoHandoff
    /\ ~HasFlag(handoff.flags, INTERACTIVE)
    /\ HasFlag(handoff.flags, ROOT_READ_ONLY)
    /\ HasFlag(handoff.flags, NETWORK_ENABLED)
    /\ HasFlag(handoff.flags, INHERIT_UID)

-----------------------------------------------------------------------------
(* The bubblewrap backend and the root directory: every root directory,    *)
(* every launcher, interactive or not                                      *)

RootFlags == {NONE, INTERACTIVE}

InitRoot ==
    /\ kind = "SandboxBwrap"
    /\ InitSandbox
    /\ root \in Roots
    /\ launcher \in Launchers

NextRoot ==
    \/ \E environment \in {[PATH |-> "/usr/bin"]} : SetEnvironment(environment)
    \/ \E directory \in MarkPaths : MarkDirectory(directory, FALSE)
    \/ \E command \in BwrapCommands, flags \in RootFlags :
          Run(command, flags, None, NoEnv, None)
    \/ Continue

SpecRoot == InitRoot /\ [][NextRoot]_vars

-----------------------------------------------------------------------------
(* Properties of what a run does on the host *)

\* the calls of the last step with this name, as places in the trace
Calls(op) == {i \in 1 .. Len(trace) : trace[i].op = op}

\* the last step launched the command
Launched == handoff # NoHandoff /\ handoff.via = "run"

\* which of tmp, dev, proc the run found under the root before the launch
Existed(basedir) == \E i \in Calls("existing_basedirs") : trace[i].existing[basedir]

\* C13: after a run that is not interactive and returns, each of tmp, dev,
\* proc that was not under the root before the launch is absent, and none
\* that was there before the launch has been removed by the backend.
C13_BasedirsCleanup ==
    (Launched /\ ~HasFlag(handoff.flags, INTERACTIVE) /\ result.kind = "return") =>
        \A basedir \in {"tmp", "dev", "proc"} :
            IF Existed(basedir)
            THEN ~\E i \in Calls("rmdir") :
                     trace[i].arg = basedir /\ trace[i].errno = None
            ELSE root[basedir] = "absent"

\* C14: try_remove_device makes at most 1000 attempts: when os.unlink is busy
\* at fewer than 1000 attempts and then succeeds the device is removed at
\* the next attempt, and when it stays busy the busy error is raised after
\* exactly 1000 attempts and the run raises it.
C14_RetryBudget ==
    \A i \in Calls("try_remove_device") :
        /\ trace[i].attempts <= 1000
        /\ trace[i].errno = "EBUSY" =>
              (trace[i].attempts = 1000 /\ result = Raise(OSError))
        /\ (trace[i].attempts > 1 /\ launcher.error = None /\ launcher.busy < 1000) =>
              (trace[i].errno = None /\ trace[i].attempts = launcher.busy + 1)
        /\ (trace[i].errno # "ENOENT" /\ launcher.busy > 1000) =>
              trace[i].errno = "EBUSY"

\* C17: after an interactive run the backend has attempted neither the
\* removal of a device nor the removal of tmp, dev or proc.
C17_NoCleanupWhenInteractive ==
    (Launched /\ HasFlag(handoff.flags, INTERACTIVE)) =>
        /\ Calls("try_remove_device") = {}
        /\ Calls("rmdir") = {}

\* the mount scope of the run is entered, is left
Entered(i) == trace[i].op = "mounted" /\ trace[i].arg = "enter"
Exited(i) == trace[i].op = "mounted" /\ trace[i].arg = "exit"

\* C18: every get_mount_source call of a run, for '/' and for the marked
\* directories, is made after the mount scope has been entered and before it
\* is left.
C18_ResolveInScope ==
    \A i \in Calls("get_mount_source") :
        /\ \E j \in 1 .. i - 1 : Entered(j)
        /\ \E j \in i + 1 .. Len(trace) : Exited(j)

\* C19: the steps of a run that launches the command are in this order:
\* the record of which of tmp, dev, proc exist, the entry into the mount
\* scope, the creation of the effective cwd, the launch in that directory,
\* the removal of the devices in the order of DEVICES, the removal of the
\* base directories in the order tmp, dev, proc, the exit from the mount
\* scope; each of the others is made once, and nothing follows the exit,
\* also when the cleanup raises.
C19_StepOrder ==
    Launched =>
        LET Step(i) ==
                CASE trace[i].op = "existing_basedirs" -> 1
                  [] Entered(i) -> 2
                  [] trace[i].op = "makedirs" -> 3
                  [] trace[i].op = "run_bwrap" -> 4
                  [] trace[i].op = "try_remove_device" -> 5
                  [] trace[i].op = "rmdir" -> 6
                  [] Exited(i) -> 7
                  [] OTHER -> 0
            Place(sequence, x) == CHOOSE k \in 1 .. Len(sequence) : sequence[k] = x
        IN  /\ \A i, j \in 1 .. Len(trace) :
                  (i < j /\ Step(i) # 0 /\ Step(j) # 0) => Step(i) <= Step(j)
            /\ \A step \in {1, 2, 3, 4, 7} :
                  Cardinality({i \in 1 .. Len(trace) : Step(i) = step}) = 1
            /\ Exited(Len(trace))
            /\ \A i \in Calls("makedirs") \cup Calls("run_bwrap") :
                  /\ trace[i].arg = EffectiveCwd(handoff.req)
                  /\ trace[i].arg = handoff.cwd
            /\ \A i, j \in Calls("try_remove_device") :
                  i < j => Place(DEVICES, trace[i].arg) < Place(DEVICES, trace[j].arg)
            /\ \A i, j \in Calls("rmdir") :
                  i < j => Place(BaseDirs, trace[i].arg) < Place(BaseDirs, trace[j].arg)

\* a run that removed the five devices and then two base directories
C19_Witness ==
    /\ Launched
    /\ result.kind = "return"
    /\ Cardinality(Calls("try_remove_device")) = 5
    /\ Cardinality(Calls("rmdir")) >= 2

\* C20: in the removal of tmp, dev, proc a directory that is missing does
\* not end the loop (the directories after it that the loop removes are
\* still removed, up to one that is not empty) and does not make the run
\* fail; a directory that is not empty ends the loop, and the run raises the
\* error instead of returning the exit code.
C20_MissingTolerated ==
    Launched =>
        LET rmdirs == Calls("rmdir")
            After(basedir) ==
                CASE basedir = "tmp" -> {"dev", "proc"}
                  [] basedir = "dev" -> {"proc"}
                  [] OTHER -> {}
        IN  /\ \A i \in rmdirs :
                  trace[i].errno = "ENOENT" =>
                     \A basedir \in After(trace[i].arg) :
                        Existed(basedir) =>
                           \E j \in rmdirs :
                              /\ j > i
                              /\ trace[j].arg = basedir \/ trace[j].errno = "ENOTEMPTY"
            /\ \A i \in rmdirs :
                  trace[i].errno = "ENOTEMPTY" =>
                     /\ result = Raise(OSError)
                     /\ \A j \in rmdirs : j <= i
                     /\ root[trace[i].arg] # "absent"
            /\ (/\ \A i \in rmdirs : trace[i].errno # "ENOTEMPTY"
                /\ \A i \in Calls("try_remove_device") :
                      trace[i].errno \in {None, "ENOENT"})
               => result = Return(handoff.status)

\* tmp was missing when the loop came to remove it, the loop went on to dev,
\* which was not empty, and the run raised the error
C20_Witness ==
    /\ Launched
    /\ \E i, j \in Calls("rmdir") :
          /\ i < j
          /\ trace[i].arg = "tmp"
          /\ trace[i].errno = "ENOENT"
          /\ trace[j].arg = "dev"
          /\ trace[j].errno = "ENOTEMPTY"
    /\ result = Raise(OSError)

-----------------------------------------------------------------------------
(* Sandbox._has_command.  A string is the sequence of its characters; a    *)
(* file under the root is the sequence of the names on its path.           *)

AttributeError == [type |-> "AttributeError"]

\* self._root, a directory of the host
_root == <<"/", "r">>

\* str.lstrip that strips nothing
lstrip_nothing(string, char) == string

\* string.lstrip(char)
RECURSIVE lstrip(_, _)
lstrip(string, char) ==
    IF string # <<>> /\ string[1] = char THEN lstrip(Tail(string), char) ELSE string

\* string.split(char)
RECURSIVE split(_, _)
split(string, char) ==
    LET at == {i \in 1 .. Len(string) : string[i] = char}
        first == CHOOSE i \in at : \A j \in at : i <= j
    IN  IF at = {}
        THEN <<string>>
        ELSE <<SubSeq(string, 1, first - 1)>>
             \o split(SubSeq(string, first + 1, Len(string)), char)

os_path_isabs(path) == path # <<>> /\ path[1] = "/"

\* os.path.join(a, b)
os_path_join2(a, b) ==
    IF os_path_isabs(b) THEN b
    ELSE IF a = <<>> \/ a[Len(a)] = "/" THEN a \o b
    ELSE a \o <<"/">> \o b

\* os.path.join(a, b, c)
os_path_join(a, b, c) == os_path_join2(os_path_join2(a, b), c)

\* the names on a path
names(path) == SelectSeq(split(path, "/"), LAMBDA name : name # <<>>)

IsPrefix(a, b) == Len(a) <= Len(b) /\ SubSeq(b, 1, Len(a)) = a

\* os.path.exists(path): the path is the root directory or above it, or a
\* file of the root directory or a directory above such a file
os_path_exists(path) ==
    \/ IsPrefix(names(path), names(_root))
    \/ \E file \in root.files : IsPrefix(names(path), names(_root) \o file)

\* Sandbox._has_command
_has_command(command, env) ==
    IF os_path_isabs(command)
    THEN Return(os_path_exists(os_path_join2(_root, lstrip(command, "/"))))
    ELSE IF env = NoEnv \/ "PATH" \notin DOMAIN env
    THEN Raise(AttributeError)
    ELSE LET paths == split(env["PATH"], ":")
         IN  Return(\E i \in 1 .. Len(paths) :
                       os_path_exists(os_path_join(_root, lstrip(paths[i], "/"),
                                                   command)))

\* the strings the caller passes: a path given by its names, absolute or
\* not, and a PATH given by its entries
RECURSIVE Joined(_, _)
Joined(strings, char) ==
    IF strings = <<>> THEN <<>>
    ELSE IF Len(strings) = 1 THEN strings[1]
    ELSE strings[1] \o <<char>> \o Joined(Tail(strings), char)

PathString(path) == (IF path.abs THEN <<"/">> ELSE <<>>) \o Joined(path.names, "/")

PathVariable(entries) ==
    Joined([i \in 1 .. Len(entries) |-> PathString(entries[i])], ":")

\* sandbox._has_command(command, env={'PATH': ...}), or env=None
HasCommand(command, entries) ==
    /\ call = Idle
    /\ result' = _has_command(PathString(command),
                              IF entries = <<>> THEN NoEnv
                              ELSE [PATH |-> PathVariable(entries)])
    /\ call' = [op |-> "_has_command", command |-> command, entries |-> entries]
    /\ handoff' = NoHandoff
    /\ trace' = <<>>
    /\ UNCHANGED <<root, launcher, kind, __cwd, __env, __directories, __batch,
                   children, scopes, exec, executed>>

bin == <<"b", "i", "n">>
usr == <<"u", "s", "r">>
sh == <<"s", "h">>

CommandFiles == {<<bin, sh>>, <<usr, bin, sh>>, <<sh>>}

CommandPaths ==
    {[abs |-> TRUE, names |-> <<bin, sh>>], [abs |-> TRUE, names |-> <<sh>>],
     [abs |-> FALSE, names |-> <<sh>>], [abs |-> FALSE, names |-> <<bin, sh>>]}

PathEntries ==
    {[abs |-> TRUE, names |-> <<bin>>], [abs |-> TRUE, names |-> <<usr, bin>>],
     [abs |-> FALSE, names |-> <<bin>>], [abs |-> FALSE, names |-> <<>>]}

InitCommand ==
    /\ kind \in Kinds
    /\ InitSandbox
    /\ root \in {[EmptyRoot EXCEPT !.files = files] : files \in SUBSET CommandFiles}
    /\ launcher = QuietLauncher

NextCommand ==
    \/ \E command \in CommandPaths,
          entries \in {<<>>} \cup {<<e>> : e \in PathEntries}
                      \cup {<<e, f>> : e \in PathEntries, f \in PathEntries} :
          HasCommand(command, entries)
    \/ Continue

SpecCommand == InitCommand /\ [][NextCommand]_vars

\* the path of these names is a file of the root directory, or a directory
\* above one
UnderRoot(path) == \E file \in root.files : IsPrefix(path, file)

\* C15: _has_command with an absolute command returns whether that path
\* exists under the root; with a relative command and a PATH it returns
\* whether the command exists under the root in one of the entries of PATH.
C15_HasCommand ==
    (call.op = "_has_command" /\ (call.command.abs \/ call.entries # <<>>)) =>
        /\ result.kind = "return"
        /\ result.value <=>
              IF call.command.abs
              THEN UnderRoot(call.command.names)
              ELSE \E i \in 1 .. Len(call.entries) :
                      UnderRoot(call.entries[i].names \o call.command.names)

\* sh is found in the second entry of PATH /bin:/usr/bin, and is not in /bin
C15_Witness ==
    /\ call.op = "_has_command"
    /\ call.command = [abs |-> FALSE, names |-> <<sh>>]
    /\ call.entries = <<[abs |-> TRUE, names |-> <<bin>>],
                        [abs |-> TRUE, names |-> <<usr, bin>>]>>
    /\ <<bin, sh>> \notin root.files
    /\ result = Return(TRUE)

-----------------------------------------------------------------------------
(* The error of a batch: commands with and without a label, with words     *)
(* that need quoting, in batches with and without a collect directory      *)

ErrorCommands == {<<"sh">>, <<"a b", "sh">>}

InitError ==
    /\ kind = "SandboxImpl"
    /\ InitSandbox
    /\ root = EmptyRoot
    /\ launcher = QuietLauncher

NextError ==
    \/ \E environment \in {[PATH |-> "/usr/bin"]} : SetEnvironment(environment)
    \/ \E command \in ErrorCommands, label \in Labels :
          Run(command, NONE, None, NoEnv, label)
    \/ Callback("noop")
    \/ \E collect \in {None, "/out"} : Batch(NONE, None, collect)
    \/ ExitNested(FALSE)
    \/ ExitBatch
    \/ Execute
    \/ Continue

SpecError == InitError /\ [][NextError]_vars

\* shlex.quote of the words of ErrorCommands
Quoted(word) == IF word = "a b" THEN "'a b'" ELSE word

\* C16: when a batch raises SandboxCommandError, a Command of the batch has
\* just exited with a non-zero code; the error names it by its label, or
\* without a label by its argv with every word shell-quoted, and carries
\* the collect path of the batch; the execution of that batch ends there,
\* the error is the outcome of leaving the outermost batch scope, and the
\* sandbox has no batch open any more.
C16_CommandError ==
    [][(result' # result /\ result'.kind = "raise"
        /\ result'.error.type = "SandboxCommandError")
       => /\ AtItem
          /\ Item.type = "Command"
          /\ handoff' # NoHandoff
          /\ handoff'.command = Item.command
          /\ handoff'.status # 0
          /\ result'.error.exitcode = handoff'.status
          /\ result'.error.label =
                IF Item.label # None
                THEN <<Item.label>>
                ELSE [i \in 1 .. Len(Item.command) |-> Quoted(Item.command[i])]
          /\ result'.error.collect = exec.batch.collect
          /\ exec' = NoExec
          /\ call' = call
          /\ call.op = "exit_batch"
          /\ __batch' = NoBatch
          /\ scopes' = <<>>]_vars

\* a batch with a collect directory has failed at a command without a label,
\* of which a word needs quoting, after another item has executed
C16_Witness ==
    /\ call.op = "exit_batch"
    /\ exec = NoExec
    /\ result.kind = "raise"
    /\ result.error.type = "SandboxCommandError"
    /\ result.error.collect = "/out"
    /\ result.error.label = <<"'a b'", "sh">>
    /\ Len(executed) >= 2

-----------------------------------------------------------------------------
(* The errors of os.unlink in the removal of a device *)

\* the cleanup of the last step raised for no other reason than a base
\* directory that is not empty
OnlyNotEmpty ==
    result.kind = "raise" =>
        \E i \in Calls("rmdir") : trace[i].errno = "ENOTEMPTY"

\* C21: in the removal of a device every os.unlink call but the last one
\* raised the busy error; a removal that ends with "already removed" does not
\* fail the run and, when the device was not there, has made one call; an
\* error that is neither of the two is raised by the run at the call where it
\* occurs, after the busy calls before it, and ends the cleanup; a device
\* that is busy at fewer calls than the budget and then goes is not reported.
C21_UnlinkErrors ==
    /\ \A i \in Calls("try_remove_device") :
          /\ trace[i].attempts <= launcher.busy + 1
          /\ trace[i].errno = "ENOENT" =>
                /\ launcher.error # "ENOENT" => trace[i].attempts = 1
                /\ Cardinality(Calls("try_remove_device")) = Len(DEVICES)
                /\ OnlyNotEmpty
          /\ trace[i].errno \notin {None, "ENOENT", "EBUSY"} =>
                /\ trace[i].errno = launcher.error
                /\ trace[i].attempts = launcher.busy + 1
                /\ result = Raise(OSError)
                /\ \A j \in i + 1 .. Len(trace) :
                      trace[j].op \notin {"try_remove_device", "rmdir"}
          /\ trace[i].errno = "EBUSY" => launcher.busy >= max_tries
    /\ (Launched /\ launcher.busy < max_tries /\ launcher.error \in {None, "ENOENT"}) =>
          /\ \A i \in Calls("try_remove_device") : trace[i].errno \in {None, "ENOENT"}
          /\ OnlyNotEmpty

\* os.unlink was busy once and then raised another error, which the run
\* raised at the second call
C21_Witness ==
    /\ Launched
    /\ launcher.busy = 1
    /\ \E i \in Calls("try_remove_device") :
          trace[i].errno = "EACCES" /\ trace[i].attempts = 2
    /\ result = Raise(OSError)

-----------------------------------------------------------------------------
(* The launch: every way the launcher can start and end, every process    *)
(* tree, the requests that arrive during the wait                          *)

LaunchLaunchers ==
    {[QuietLauncher EXCEPT !.spawn = spawn, !.requests = requests, !.tree = tree,
                           !.pgid = pgid] :
        spawn \in {"ok", "fails", "interrupted"}, requests \in RequestLists,
        tree \in ProcessTrees, pgid \in ProcessGroups}

InitLaunch ==
    /\ kind = "SandboxBwrap"
    /\ InitSandbox
    /\ root = EmptyRoot
    /\ launcher \in LaunchLaunchers

NextLaunch ==
    \/ \E environment \in {[PATH |-> "/usr/bin"]} : SetEnvironment(environment)
    \/ \E command \in BwrapCommands, flags \in RootFlags :
          Run(command, flags, None, NoEnv, None)
    \/ Continue

SpecLaunch == InitLaunch /\ [][NextLaunch]_vars

\* the places in the trace where this scope is entered, is left
Enters(scope) == {i \in Calls(scope) : trace[i].arg = "enter"}
Exits(scope) == {i \in Calls(scope) : trace[i].arg = "exit"}

\* C22: a launch that is not interactive installs the suspend/resume pair
\* and the terminator once each before it starts the launcher and removes
\* both before the run is over, whether the launcher exits, Popen raises or
\* an exception leaves the wait; an interactive launch installs neither.
C22_HooksScoped ==
    \A hook \in {"suspendable", "terminator"} :
        IF Launched /\ ~HasFlag(handoff.flags, INTERACTIVE)
        THEN /\ Cardinality(Enters(hook)) = 1
             /\ Cardinality(Exits(hook)) = 1
             /\ \A i \in Enters(hook), j \in Exits(hook), k \in Calls("Popen") :
                   i < k /\ k < j
             /\ \A j \in Exits(hook), k \in Calls("communicate") : k < j
             /\ \A j \in Exits(hook) : \E k \in j + 1 .. Len(trace) : Exited(k)
        ELSE Calls(hook) = {}

\* the wait of a launch that is not interactive was left by an exception,
\* and both hooks were removed
C22_Witness ==
    /\ Launched
    /\ ~HasFlag(handoff.flags, INTERACTIVE)
    /\ result = Raise(KeyboardInterrupt)
    /\ \E i \in Calls("communicate") : trace[i].errno # None
    /\ Exits("suspendable") # {} /\ Exits("terminator") # {}

\* the signals the hooks sent during the last step
Signals == Calls("kill") \cup Calls("killpg")

\* the requests the hooks of the last launch were installed for
Supervised ==
    IF Launched /\ ~HasFlag(handoff.flags, INTERACTIVE) /\ launcher.spawn # "fails"
    THEN {n \in 1 .. Len(launcher.requests) : TRUE}
    ELSE {}

C24_ToolNotFound ==
    [][result' = Raise(ProgramNotFoundError) =>
          /\ root' = root
          /\ handoff' = NoHandoff
          /\ Len(SelectSeq(trace', LAMBDA event : event.op = "get_host_tool")) = 1
          /\ \A i \in 1 .. Len(trace') :
                trace'[i].op \in {"get_mount_source", "get_host_tool"}]_vars

\* the launcher is not found by a run that comes after a run that left tmp
\* under the root
C24_Witness ==
    /\ result = Raise(ProgramNotFoundError)
    /\ call # Idle /\ call.op = "run"
    /\ root.tmp = "empty"
    /\ Calls("get_host_tool") # {}

\* C27: an interactive launch gets the standard input of the caller and no
\* new session, and opens nothing; a launch that is not interactive gets the
\* null device, opened once before the launch, and a new session, and the
\* null device is closed once, after the launch and before the run is over,
\* also when the launch raises.
C27_StdinAndSession ==
    Launched =>
        /\ Cardinality(Calls("Popen")) = 1
        /\ \A k \in Calls("Popen") :
              IF HasFlag(handoff.flags, INTERACTIVE)
              THEN /\ trace[k].stdin = "sys.stdin"
                   /\ ~trace[k].start_new_session
                   /\ Calls("open") = {} /\ Calls("close") = {}
              ELSE /\ trace[k].stdin = "/dev/null"
                   /\ trace[k].start_new_session
                   /\ Cardinality(Calls("open")) = 1
                   /\ Cardinality(Calls("close")) = 1
                   /\ \A i \in Calls("open"), j \in Calls("close") :
                         /\ trace[i].arg = "/dev/null" /\ trace[j].arg = "/dev/null"
                         /\ i < k /\ k < j

\* Popen raised in a launch that is not interactive, and the null device
\* was closed
C27_Witness ==
    /\ Launched
    /\ ~HasFlag(handoff.flags, INTERACTIVE)
    /\ \E k \in Calls("Popen") : trace[k].errno # None /\ trace[k].start_new_session
    /\ Calls("close") # {}
    /\ result = Raise(OSError)

-----------------------------------------------------------------------------
(* One launcher at a time *)

-----------------------------------------------------------------------------
(* The settings of a deferred command: the work directory and the          *)
(* environment change, and the dict given to set_environment is changed in *)
(* place, between run() and the execution of the batch                     *)

\* the caller changes the dict it gave to set_environment: self.__env is
\* that dict
MutateEnvironment ==
    /\ call = Idle
    /\ __env # NoEnv
    /\ __env.PATH # "/mutated"
    /\ __env' = [__env EXCEPT !.PATH = "/mutated"]
    /\ call' = [op |-> "mutate_environment"]
    /\ result' = ReturnNone
    /\ handoff' = NoHandoff
    /\ trace' = <<>>
    /\ UNCHANGED <<root, launcher, kind, __cwd, __directories, __batch, children, scopes, exec,
                   executed>>

InitSnapshot ==
    /\ kind = "SandboxImpl"
    /\ InitSandbox
    /\ root = EmptyRoot
    /\ launcher = QuietLauncher

NextSnapshot ==
    \/ \E environment \in {[PATH |-> "/usr/bin"]} : SetEnvironment(environment)
    \/ \E directory \in {"/w"} : SetWorkDirectory(directory)
    \/ MutateEnvironment
    \/ \E command \in Commands :
          \/ Run(command, NONE, None, NoEnv, None)
          \/ Run(command, NONE, "/a", [PATH |-> "/bin"], None)
    \/ Batch(NONE, None, None)
    \/ ExitBatch
    \/ ExecuteCommand
    \/ ReturnFromGroup
    \/ Continue

SpecSnapshot == InitSnapshot /\ [][NextSnapshot]_vars

\* the environment a run() call asks for: its env argument, else the
\* environment of the sandbox at the call, with PWD set to the effective cwd
EffectiveEnv(req) ==
    LET e == IF req.env # NoEnv THEN req.env ELSE req.environment
    IN  [k \in DOMAIN e \cup {"PWD"} |-> IF k = "PWD" THEN EffectiveCwd(req) ELSE e[k]]

\* C26: a Command of a batch is handed over, when the batch executes, with
\* the cwd and the environment that were effective at its run() call,
\* whatever the work directory and the environment of the sandbox have
\* become since.
C26_Snapshot ==
    [][(/\ AtItem
        /\ Item.type = "Command"
        /\ exec' # exec
        /\ handoff' # NoHandoff)
       => /\ handoff'.command = Item.command
          /\ handoff'.req = Item.req
          /\ handoff'.cwd = EffectiveCwd(Item.req)
          /\ handoff'.env = EffectiveEnv(Item.req)]_vars

\* a command deferred with the settings of the sandbox executes after the
\* work directory was set and the environment was changed in place
C26_Witness ==
    /\ exec # NoExec
    /\ handoff # NoHandoff
    /\ handoff.req.cwd = None /\ handoff.req.env = NoEnv
    /\ handoff.req.workdir = None /\ __cwd = "/w"
    /\ handoff.req.environment = [PATH |-> "/usr/bin"] /\ __env.PATH = "/mutated"
    /\ handoff.cwd = "/" /\ handoff.env.PATH = "/usr/bin"

-----------------------------------------------------------------------------
(* Leaving the outermost batch scope *)

\* C28: once the outermost batch scope has been left, normally or by an
\* exception of its body, the sandbox has no open batch, also while the
\* batch executes and after a command of it has failed; with no open batch
\* run() defers nothing and returns an exit code or raises, and batch()
\* opens a batch with an empty main group and nothing executed.
C28_IdleAfterBatch ==
    [][/\ call'.op = "exit_batch" => __batch' = NoBatch
       /\ exec' # NoExec => __batch' = NoBatch
       /\ (call = Idle /\ __batch = NoBatch /\ call'.op = "run") =>
             /\ children' = children
             /\ result' # ReturnNone
             /\ __batch' = NoBatch
       /\ (call = Idle /\ __batch = NoBatch /\ call'.op = "batch") =>
             /\ __batch' # NoBatch
             /\ __batch'.current_group = 1
             /\ children' = << <<>> >>
             /\ scopes' = <<>>
             /\ executed' = <<>>]_vars

\* a command of the batch has failed after another item had executed, the
\* execution is over and no batch is open
C28_Witness ==
    /\ call.op = "exit_batch"
    /\ exec = NoExec
    /\ result.kind = "raise"
    /\ result.error.type = "SandboxCommandError"
    /\ Len(executed) >= 2
    /\ __batch = NoBatch

\* C29: when the body of the outermost batch scope raises, the exception is
\* what the caller gets, the batch does not execute - nothing is handed
\* over, no callback is invoked - and its items are dropped with it: the
\* batch executes only when the scope is left normally.
C29_BodyRaises ==
    [][/\ (call = Idle /\ call'.op = "exit_batch") =>
             \/ /\ result' = Raise(BodyError)
                /\ exec' = NoExec
                /\ executed' = <<>>
                /\ handoff' = NoHandoff
                /\ trace' = <<>>
                /\ root' = root
             \/ /\ result'.kind = "executing"
                /\ exec' # NoExec
       /\ (call.op = "exit_batch" /\ result = Raise(BodyError)) =>
             /\ exec' = NoExec
             /\ executed' = <<>>
             /\ handoff' = NoHandoff
             /\ children' = <<>>]_vars

\* the body raised after it had deferred a command and a call
C29_Witness ==
    /\ call.op = "exit_batch"
    /\ result = Raise(BodyError)
    /\ exec = NoExec
    /\ executed = <<>>
    /\ \E item \in Leaves(children) : item.type = "Command"
    /\ \E item \in Leaves(children) : item.type = "Call"

-----------------------------------------------------------------------------
(* Calls that use the sandbox while the batch executes *)

InitCall ==
    /\ kind \in {"SandboxImpl", "SandboxBwrap"}
    /\ InitSandbox
    /\ root = EmptyRoot
    /\ launcher = QuietLauncher

NextCall ==
    \/ \E environment \in {[PATH |-> "/usr/bin"]} : SetEnvironment(environment)
    \/ \E command \in Commands : Run(command, NONE, None, NoEnv, None)
    \/ \E callback \in {"noop", "run", "_callback"} : Callback(callback)
    \/ Batch(NONE, None, None)
    \/ ExitNested(FALSE)
    \/ ExitBatch
    \/ Execute
    \/ Continue

SpecCall == InitCall /\ [][NextCall]_vars

\* C30: when a Call of a batch executes, no batch is open and the call
\* appends nothing to the tree; a callback that invokes run() has its
\* command handed over in that step, unless run() raises, and after it the
\* execution goes on with the next item whatever the exit status; a callback
\* that invokes _callback() has the inner callback invoked in that step.
C30_CallsRunImmediately ==
    [][(AtItem /\ Item.type = "Call" /\ exec' # exec) =>
          /\ __batch = NoBatch
          /\ __batch' = NoBatch
          /\ children' = children
          /\ executed' = Append(executed, [id |-> Item.id, type |-> "Call",
                                           exitcode |-> 0])
          /\ Item.callback = "run" =>
                /\ handoff' # NoHandoff \/ result'.kind = "raise"
                /\ handoff' # NoHandoff => handoff'.command = CallbackCommand
                /\ (handoff' # NoHandoff /\ result'.kind # "raise") =>
                      /\ exec' = [exec EXCEPT !.stack = next_item(@)]
                      /\ result' = result
          /\ Item.callback # "run" =>
                /\ handoff' = NoHandoff
                /\ exec' = [exec EXCEPT !.stack = next_item(@)]
                /\ result' = result]_vars

\* a Call ran a command that exited with status 1, and the batch goes on
\* with the item after it
C30_Witness ==
    /\ kind = "SandboxImpl"
    /\ AtItem
    /\ executed # <<>>
    /\ executed[Len(executed)].type = "Call"
    /\ handoff # NoHandoff
    /\ handoff.command = CallbackCommand
    /\ handoff.status = 1
    /\ result.kind = "executing"

-----------------------------------------------------------------------------
(* The current group of the open batch *)

\* group is an item of the group parent
ChildOf(group, parent) ==
    \E i \in 1 .. Len(children[parent]) :
        children[parent][i].type = "Group" /\ children[parent][i].group = group

\* C31: while a batch is open, the groups of the open scopes and the current
\* group form a path from the main group, each an item of the one before;
\* entering a nested scope makes the new group the last item of the group
\* that was current and the current group; leaving it, normally or by an
\* exception of its body, makes the group that was current at the entry
\* current again and leaves the tree as it is, so that a call or command
\* deferred next is appended to that group.
C31_CurrentGroup ==
    /\ __batch # NoBatch =>
          LET path == Append(scopes, __batch.current_group)
          IN  /\ path[1] = 1
              /\ \A n \in 2 .. Len(path) : ChildOf(path[n], path[n - 1])
    /\ [][/\ (__batch # NoBatch /\ Len(scopes') > Len(scopes)) =>
                /\ scopes' = Append(scopes, __batch.current_group)
                /\ Len(children'[__batch.current_group])
                      = Len(children[__batch.current_group]) + 1
                /\ LET last == children'[__batch.current_group]
                                  [Len(children'[__batch.current_group])]
                   IN  last.type = "Group" /\ last.group = __batch'.current_group
          /\ Len(scopes') < Len(scopes) =>
                /\ __batch'.current_group = scopes[Len(scopes)]
                /\ scopes' = SubSeq(scopes, 1, Len(scopes) - 1)
                /\ children' = children
          /\ (__batch # NoBatch /\ __batch' = __batch /\ children' # children) =>
                \E item \in Leaves(children') :
                   children' = append(children, __batch.current_group, item)]_vars

\* the body of a nested scope raised after it had deferred an item: the
\* group keeps the item and the main group is current again
C31_Witness ==
    /\ call.op = "exit_nested"
    /\ result = Raise(BodyError)
    /\ __batch # NoBatch
    /\ __batch.current_group = 1
    /\ scopes = <<>>
    /\ \E i \in 1 .. Len(children[1]) :
          /\ children[1][i].type = "Group"
          /\ children[children[1][i].group] # <<>>

-----------------------------------------------------------------------------
(* The collect path of a batch *)

\* the group of the tree that holds the command or call with this id
GroupOf(id) ==
    CHOOSE g \in 1 .. Len(children) :
        \E i \in 1 .. Len(children[g]) :
            children[g][i].type # "Group" /\ children[g][i].id = id

\* C32: the collect path of a batch is the collect argument of the batch()
\* call that opened it; a nested batch() call leaves it as it is, whatever
\* its own collect argument; the batch executes with it, and a
\* SandboxCommandError carries it, also when the failing Command is in a
\* nested group.
C32_OutermostCollect ==
    [][/\ (__batch = NoBatch /\ __batch' # NoBatch) =>
             (call'.op = "batch" /\ __batch'.collect = call'.collect)
       /\ (__batch # NoBatch /\ __batch' # NoBatch) =>
             __batch'.collect = __batch.collect
       /\ (exec = NoExec /\ exec' # NoExec) =>
             exec'.batch.collect = __batch.collect
       /\ (exec # NoExec /\ exec' # NoExec) =>
             exec'.batch.collect = exec.batch.collect
       /\ (result' # result /\ result'.kind = "raise"
           /\ result'.error.type = "SandboxCommandError") =>
             result'.error.collect = exec.batch.collect]_vars

\* a command of a nested group has failed, and the error carries the collect
\* path of the batch
C32_Witness ==
    /\ call.op = "exit_batch"
    /\ exec = NoExec
    /\ result.kind = "raise"
    /\ result.error.type = "SandboxCommandError"
    /\ result.error.collect = "/out"
    /\ executed # <<>>
    /\ GroupOf(executed[Len(executed)].id) > 1

-----------------------------------------------------------------------------
(* Requests that arrive before the launcher has been spawned *)

EarlyLists == {<<>>} \cup {<<r>> : r \in Requests}

RequestLaunchers ==
    {[QuietLauncher EXCEPT !.early = early, !.requests = requests, !.tree = tree] :
        early \in EarlyLists, requests \in EarlyLists, tree \in ProcessTrees}

InitRequest ==
    /\ kind = "SandboxBwrap"
    /\ InitSandbox
    /\ root = EmptyRoot
    /\ launcher \in RequestLaunchers

NextRequest ==
    \/ \E environment \in {[PATH |-> "/usr/bin"]} : SetEnvironment(environment)
    \/ \E command \in BwrapCommands, flags \in RootFlags :
          Run(command, flags, None, NoEnv, None)
    \/ Continue

SpecRequest == InitRequest /\ [][NextRequest]_vars

\* C33: no hook raises an error, whenever the request arrives while the
\* hooks are installed; a request that arrives before Popen has returned
\* sends no signal, and so does a termination request while the launcher has
\* no child and a stop or continue request while its first child has none.
C33_SafeRequests ==
    /\ Calls("raise") = {}
    /\ result # Raise(NameError)
    /\ \A i \in Signals : \E k \in Calls("Popen") : k < i
    /\ launcher.tree[BwrapPid] = <<>> => Signals = {}
    /\ (launcher.tree[BwrapPid] # <<>>
        /\ launcher.tree[launcher.tree[BwrapPid][1]] = <<>>) => Calls("killpg") = {}

=============================================================================
